---- MODULE Spec2Model ----
(***************************************************************************)
(* A model of the WhatsApp webhook proxy (wa-proxy).  The repository holds *)
(* three variants of the same Express handler:                             *)
(*   "routing"  src/server.js              (AI routing only)               *)
(*   "bridge"   src/unnamed/part_002 1-295 (handoff with 3CX bridge)       *)
(*   "summary"  src/unnamed/part_002 297-507 (handoff with summary)        *)
(* One behaviour of the model is one process running one variant under one *)
(* environment configuration; requests are handled as Node handles them:   *)
(* a handler runs without interruption up to its next await, and resumes   *)
(* when the awaited network call settles.                                  *)
(***************************************************************************)
EXTENDS Integers, Sequences, FiniteSets, TLC

VARIABLES cfg, env, handoff, pc, idx, last, raw, rcvd, hdr, log, fwd, bridgeBody, call,
          probe

vars ==
  <<cfg, env, handoff, pc, idx, last, raw, rcvd, hdr, log, fwd, bridgeBody, call, probe>>

(***************************************************************************)
(* Bounds of the model.                                                    *)
(***************************************************************************)
MaxEvents == 2
MaxMsgs == 2

Events == 1..MaxEvents

(***************************************************************************)
(* Strings are sequences of tokens; a token is one character, or a literal *)
(* chunk of text the program emits as a whole.                             *)
(***************************************************************************)
IsSpace(ch) == ch = " "

ToLowerCh(ch) == IF ch = "H" THEN "h" ELSE IF ch = "X" THEN "x" ELSE ch

ToLower(s) == [i \in 1..Len(s) |-> ToLowerCh(s[i])]

RECURSIVE TrimLeft(_)
TrimLeft(s) == IF s # <<>> /\ IsSpace(Head(s)) THEN TrimLeft(Tail(s)) ELSE s

RECURSIVE TrimRight(_)
TrimRight(s) ==
  IF s # <<>> /\ IsSpace(s[Len(s)]) THEN TrimRight(SubSeq(s, 1, Len(s) - 1)) ELSE s

\* String.prototype.trim
Trim(s) == TrimRight(TrimLeft(s))

\* String.prototype.split(sep) for a one-character separator: "" splits to [""]
RECURSIVE Split(_, _)
Split(s, sep) ==
  IF \E i \in 1..Len(s) : s[i] = sep
  THEN LET i == CHOOSE j \in 1..Len(s) : s[j] = sep /\ \A k \in 1..(j - 1) : s[k] # sep
       IN <<SubSeq(s, 1, i - 1)>> \o Split(SubSeq(s, i + 1, Len(s)), sep)
  ELSE <<s>>

\* Array.prototype.join(sep)
RECURSIVE Join(_, _)
Join(parts, sep) ==
  IF parts = <<>> THEN <<>>
  ELSE IF Len(parts) = 1 THEN parts[1]
  ELSE parts[1] \o <<sep>> \o Join(Tail(parts), sep)

\* Array.prototype.filter(Boolean) on an array of strings: drops the empty ones
RECURSIVE FilterNonEmpty(_)
FilterNonEmpty(parts) ==
  IF parts = <<>> THEN <<>>
  ELSE IF Head(parts) = <<>> THEN FilterNonEmpty(Tail(parts))
  ELSE <<Head(parts)>> \o FilterNonEmpty(Tail(parts))

IsSubstring(p, s) ==
  \E i \in 0..(Len(s) - Len(p)) : \A k \in 1..Len(p) : s[i + k] = p[k]

\* RegExp(source, "i").test(text) for a source that is an alternation of
\* literals: some alternative occurs in the text, case-insensitively.  The
\* empty source is one empty alternative, which occurs in every text.
RegExpTestI(source, text) ==
  LET alts == Split(source, "|")
  IN \E a \in 1..Len(alts) : IsSubstring(ToLower(alts[a]), ToLower(text))

(***************************************************************************)
(* Request bodies.  A body is a byte sequence; what the program does with  *)
(* it depends on whether it parses as JSON, on its insignificant           *)
(* whitespace (ws = 0 is the form JSON.stringify emits) and on the value   *)
(* found at entry[0].changes[0].value.messages.                            *)
(***************************************************************************)
WaIds == {"A", "B"}

\* message texts: ordinary, handoff keyword (upper and lower case), blank
TextOrdinary == <<"x">>
TextIntent == <<"x", " ", "H">>
TextBlank == <<" ">>

Msg(type, from, body) == [type |-> type, from |-> from, body |-> body]

\* a field that is absent reads as "" (type, from) or as the empty text;
\* NullElement is the JSON value null as an element of the messages list
NullElement == Msg("null", "", <<>>)

\* a messages value that is truthy and not iterable (an object, a number),
\* written as the list of this one marker
NotIterable == <<Msg("object", "", <<>>)>>

Bytes(ws, ok, hasMsgs, msgs) == [ws |-> ws, ok |-> ok, hasMsgs |-> hasMsgs, msgs |-> msgs]

\* JSON.parse(buffer.toString("utf8")): ok = FALSE stands for the SyntaxError
JSONparse(b) == [ok |-> b.ok, hasMsgs |-> b.hasMsgs, msgs |-> b.msgs]

\* JSON.stringify(obj): the serializer's own form, without whitespace
JSONstringify(obj) == Bytes(0, TRUE, obj.hasMsgs, obj.msgs)

(***************************************************************************)
(* Environment configuration (process.env), fixed at start-up.             *)
(***************************************************************************)
Variants == {"routing", "bridge", "summary"}

Config(variant, url3cx, urlChatwoot, keywords, summaryEndpoint, creds3cx, templateName) ==
  [variant |-> variant,
   THREE_CX_WEBHOOK_URL |-> url3cx,
   CHATWOOT_WEBHOOK_URL |-> urlChatwoot,
   HANDOFF_KEYWORDS |-> keywords,
   OPENAI_SUMMARY_ENDPOINT |-> summaryEndpoint,
   THREE_CX_CREDENTIALS |-> creds3cx,
   HANDOFF_TEMPLATE_NAME |-> templateName,
   META_APP_SECRET |-> <<"k">>,
   VERIFY_TOKEN |-> <<"t">>]

\* keyword lists of the environment: two keywords, none, only blanks
KeywordsDefault == <<"h", ",", " ", "q">>
KeywordsEmpty == <<>>
KeywordsBlank == <<" ", " ">>

(***************************************************************************)
(* Signature verification.                                                 *)
(***************************************************************************)
\* crypto.createHmac("sha256", key).update(body).digest("hex"): distinct
\* (key, body) pairs have distinct digests
Hmac(key, body) == [key |-> key, body |-> body]

\* "sha256=" and 64 hex digits
SigLen == 71

Header(present, len, mac) == [present |-> present, len |-> len, mac |-> mac]

ExpectedHeader(secret, body) == Header(TRUE, SigLen, Hmac(secret, body))

NoBytes == Bytes(0, FALSE, FALSE, <<>>)

MissingHeader == Header(FALSE, 0, Hmac(<<>>, NoBytes))

\* a comparison of the digests that does not look at the lengths
TimingSafeEqualAnyLength(a, b) == [threw |-> FALSE, eq |-> a.mac = b.mac]

\* crypto.timingSafeEqual throws on operands of different length
TimingSafeEqual(a, b) ==
  IF a.len # b.len THEN [threw |-> TRUE, eq |-> FALSE]
  ELSE [threw |-> FALSE, eq |-> a.mac = b.mac]

verifySignature(rawBody, headerSig) ==
  IF ~headerSig.present \/ cfg.META_APP_SECRET = <<>> THEN FALSE
  ELSE LET expected == ExpectedHeader(cfg.META_APP_SECRET, rawBody)
           r == TimingSafeEqual(headerSig, expected)
       IN IF r.threw THEN FALSE ELSE r.eq

(***************************************************************************)
(* Handoff flags and the keyword classifier.                               *)
(***************************************************************************)
\* HANDOFF_KEYWORDS.split(",").map(s => s.trim()).filter(Boolean).join("|")
handoffRegex ==
  LET parts == Split(cfg.HANDOFF_KEYWORDS, ",")
      trimmed == [i \in 1..Len(parts) |-> Trim(parts[i])]
  IN Join(FilterNonEmpty(trimmed), "|")

\* handoffRegex.test(text), with the expression built once
handoffRegexTest(text) ==
  \E re \in {handoffRegex}, t \in {text} : RegExpTestI(re, t)

\* a lookup that never finds the key
handoffGetUnset(h, waId) == FALSE

\* handoff.get(waId): a missing key reads as undefined, which is falsy
handoffGet(h, waId) == h[waId]

\* every conversation put in handoff mode
handoffSetAll(h, waId) == [w \in DOMAIN h |-> TRUE]

\* the flag flipped instead of set
handoffToggle(h, waId) == [h EXCEPT ![waId] = ~@]

\* handoff.set(waId, true)
handoffSet(h, waId) == [h EXCEPT ![waId] = TRUE]

(***************************************************************************)
(* Outbound effects.  log[e] is the sequence of effects of request e in    *)
(* the order the handler produced them: the response to the source and the *)
(* calls it began.  last[e] is how its latest awaited call settled.        *)
(***************************************************************************)
Effect(k, to, txt) == [k |-> k, to |-> to, txt |-> txt]

Respond(status) == Effect("respond", "source", <<status>>)

Targets == {"3cx", "chatwoot"}

ReplyText == <<"reply">>
SummaryText == <<"summary">>
SummaryFallback == <<"Summary not available.">>
ConnectText == <<"Okay - connecting you with a human.">>
FreeformText == <<"A human will assist you shortly.">>
PlaceholderSummary == <<"this is the summary">>
AnnotationMark == <<"\n\n---\n[Summary for agents]\n">>

\* kinds of effect that are outbound network calls
OutboundKinds ==
  {"forward", "bridge", "ai", "sendReply", "sendConnect", "sendSummary",
   "summary", "template", "freeform"}

(***************************************************************************)
(* injectSummaryIntoPayload: ret is the buffer returned, rawAfter the      *)
(* content of the buffer passed in once the call has returned.             *)
(***************************************************************************)
FirstTextIndex(msgs) ==
  IF \E i \in 1..Len(msgs) : msgs[i].type = "text" /\ msgs[i].body # <<>>
  THEN CHOOSE i \in 1..Len(msgs) :
         /\ msgs[i].type = "text" /\ msgs[i].body # <<>>
         /\ \A j \in 1..(i - 1) : ~(msgs[j].type = "text" /\ msgs[j].body # <<>>)
  ELSE 0

\* the annotation written into the caller's buffer instead of a copy
injectInPlace(rawBuffer, placeholderSummary) ==
  LET obj == JSONparse(rawBuffer)
      i == FirstTextIndex(obj.msgs)
      annotated ==
        [obj EXCEPT !.msgs[i].body = @ \o AnnotationMark \o placeholderSummary]
  IN IF obj.ok /\ obj.hasMsgs /\ i > 0
       THEN [ret |-> JSONstringify(annotated), rawAfter |-> JSONstringify(annotated)]
       ELSE [ret |-> rawBuffer, rawAfter |-> rawBuffer]

injectSummaryIntoPayload(rawBuffer, placeholderSummary) ==
  LET obj == JSONparse(rawBuffer)
      i == FirstTextIndex(obj.msgs)
      annotated ==
        [obj EXCEPT !.msgs[i].body = @ \o AnnotationMark \o placeholderSummary]
  IN IF ~obj.ok THEN [ret |-> rawBuffer, rawAfter |-> rawBuffer]
     ELSE IF obj.hasMsgs /\ i > 0
       THEN [ret |-> JSONstringify(annotated), rawAfter |-> rawBuffer]
       ELSE [ret |-> JSONstringify(obj), rawAfter |-> rawBuffer]

(***************************************************************************)
(* Fan-out of the raw body to the observers.                               *)
(***************************************************************************)
Url(t) == IF t = "3cx" THEN cfg.THREE_CX_WEBHOOK_URL ELSE cfg.CHATWOOT_WEBHOOK_URL

\* the targets forwardRawJSON is called for, in call order
FanOutTargets ==
  IF cfg.variant = "summary" THEN <<"3cx", "chatwoot">>
  ELSE IF cfg.variant = "bridge" THEN <<"chatwoot">>
  ELSE IF cfg.CHATWOOT_WEBHOOK_URL THEN <<"chatwoot">> ELSE <<>>

Fwd(st, sent) == [st |-> st, sent |-> sent]

\* forwardRawJSON up to its first await: skipped without a url, else the
\* fetch has begun
forwardRawJSONStart(t) == IF Url(t) THEN Fwd("pending", NoBytes) ELSE Fwd("skipped", NoBytes)

FanOutStart ==
  [t \in Targets |->
     IF \E k \in 1..Len(FanOutTargets) : FanOutTargets[k] = t
     THEN forwardRawJSONStart(t) ELSE Fwd("none", NoBytes)]

FanOutEffects ==
  LET called == SelectSeq(FanOutTargets, LAMBDA t : Url(t))
  IN [k \in 1..Len(called) |-> Effect("forward", called[k], <<>>)]

\* the acknowledgment written only after the fan-out calls have begun
FanOutThenAck == FanOutEffects \o <<Respond("200")>>

\* res.sendStatus(200), then the fan-out calls
AckThenFanOut == <<Respond("200")>> \o FanOutEffects

\* forwardRawJSON when its fetch settles; outcome "ok", "status" (r.ok false)
\* or "throw" (transport exception, caught).  sent is the content of the
\* buffer handed to fetch, as the request carried it.
ForwardOutcomes == {"ok", "status", "throw"}

\* a failure that takes the forwards still in flight down with it
forwardSettleAbortAll(f, t, outcome, buffer) ==
  IF outcome = "ok" THEN [f EXCEPT ![t] = Fwd("ok", buffer)]
  ELSE [u \in Targets |->
          IF u = t \/ f[u].st = "pending" THEN Fwd("failed", buffer) ELSE f[u]]

forwardRawJSONSettle(f, t, outcome, buffer) ==
  [f EXCEPT ![t] =
     IF outcome = "ok" THEN Fwd("ok", buffer) ELSE Fwd("failed", buffer)]

(***************************************************************************)
(* The message loop of app.post("/wa").  A run of the handler from one     *)
(* await to the next is described by the record Step: the handoff map it   *)
(* leaves, where it stops (pc, idx), the effects it produced (out), the    *)
(* annotated copy it built and the content of the request's raw buffer.    *)
(***************************************************************************)
Step(h, p, i, out, bb, rb) ==
  [handoff |-> h, pc |-> p, idx |-> i, out |-> out, bridgeBody |-> bb, raw |-> rb]

\* the AI path taken without looking at the flag
AIPathAlwaysOpen(h, waId) == TRUE

\* the guard of the AI path: if (!handoff.get(waId)); server.js has no guard
AIPathOpen(h, waId) == cfg.variant = "routing" \/ ~handoffGet(h, waId)

\* the handoff test made in every variant
HandoffIntentAnyVariant(text) == handoffRegexTest(text)

\* the handoff test: if (handoffRegex.test(text)); server.js has no such test
HandoffIntent(text) == cfg.variant # "routing" /\ handoffRegexTest(text)

RECURSIVE Route(_, _, _, _, _, _)
RECURSIVE sendTemplateFrom3cxNumber(_, _, _, _, _, _)

\* sendTemplateFrom3cxNumber({to: msgs[i].from}) up to its first await
sendTemplateFrom3cxNumber(h, rb, bb, msgs, i, out) ==
  IF ~cfg.THREE_CX_CREDENTIALS THEN Route(h, rb, bb, msgs, i + 1, out)
  ELSE IF cfg.HANDOFF_TEMPLATE_NAME
    THEN Step(h, "template", i, out \o <<Effect("template", msgs[i].from, <<>>)>>, bb, rb)
    ELSE Step(h, "freeform", i,
              out \o <<Effect("freeform", msgs[i].from, FreeformText)>>, bb, rb)

\* the handoff branch taken only by the first trigger of a conversation
HandoffBranchOnce(h, rb, bb, msgs, i, out) ==
  LET waId == msgs[i].from
      h1 == handoffSet(h, waId)
      inj == injectSummaryIntoPayload(rb, PlaceholderSummary)
  IN IF handoffGet(h, waId) THEN Route(h, rb, bb, msgs, i + 1, out)
     ELSE IF cfg.variant = "summary"
       THEN Step(h1, "connect", i,
                 out \o <<Effect("sendConnect", waId, ConnectText)>>, bb, rb)
     ELSE IF cfg.THREE_CX_WEBHOOK_URL
       THEN Step(h1, "bridge", i, out \o <<Effect("bridge", "3cx", <<>>)>>,
                 inj.ret, inj.rawAfter)
     ELSE sendTemplateFrom3cxNumber(h1, rb, bb, msgs, i, out)

\* the handoff branch without handoff.set(waId, true)
HandoffBranchNoSet(h, rb, bb, msgs, i, out) ==
  LET waId == msgs[i].from
      inj == injectSummaryIntoPayload(rb, PlaceholderSummary)
  IN IF cfg.variant = "summary"
       THEN Step(h, "connect", i,
                 out \o <<Effect("sendConnect", waId, ConnectText)>>, bb, rb)
     ELSE IF cfg.THREE_CX_WEBHOOK_URL
       THEN Step(h, "bridge", i, out \o <<Effect("bridge", "3cx", <<>>)>>,
                 inj.ret, inj.rawAfter)
     ELSE sendTemplateFrom3cxNumber(h, rb, bb, msgs, i, out)

\* the handoff branch of the loop body, up to its first await
HandoffBranch(h, rb, bb, msgs, i, out) ==
  LET waId == msgs[i].from
      h1 == handoffSet(h, waId)
      inj == injectSummaryIntoPayload(rb, PlaceholderSummary)
  IN IF cfg.variant = "summary"
       THEN Step(h1, "connect", i,
                 out \o <<Effect("sendConnect", waId, ConnectText)>>, bb, rb)
     ELSE IF cfg.THREE_CX_WEBHOOK_URL
       THEN Step(h1, "bridge", i, out \o <<Effect("bridge", "3cx", <<>>)>>,
                 inj.ret, inj.rawAfter)
     ELSE sendTemplateFrom3cxNumber(h1, rb, bb, msgs, i, out)

\* for (const m of messages) from message i on, up to the next await or the end
\* for...of throws on a value that is not iterable, m.type on null
Route(h, rb, bb, msgs, i, out) ==
  IF msgs = NotIterable THEN Step(h, "crashed", i, out, bb, rb)
  ELSE IF i > Len(msgs) THEN Step(h, "done", i, out, bb, rb)
  ELSE LET m == msgs[i]
           waId == m.from
           text == Trim(m.body)
       IN IF m = NullElement THEN Step(h, "crashed", i, out, bb, rb)
          ELSE IF m.type # "text" THEN Route(h, rb, bb, msgs, i + 1, out)
          ELSE IF waId = "" \/ text = <<>> THEN Route(h, rb, bb, msgs, i + 1, out)
          ELSE IF HandoffIntent(text) THEN HandoffBranch(h, rb, bb, msgs, i, out)
          ELSE IF AIPathOpen(h, waId)
            THEN Step(h, "aiReply", i, out \o <<Effect("ai", waId, text)>>, bb, rb)
          ELSE Route(h, rb, bb, msgs, i + 1, out)

\* payload?.entry?.[0]?.changes?.[0]?.value?.messages || []
Messages(payload) == IF payload.hasMsgs THEN payload.msgs ELSE <<>>

\* the fan-out awaited before the body is parsed and routed
AcceptedAwaitingFanOut(h, body) == Step(h, "fanout", 0, AckThenFanOut, NoBytes, body)

\* the body parsed before the fan-out, a parse failure returning at once
AcceptedParseFirst(h, body) ==
  LET payload == JSONparse(body)
  IN IF ~payload.ok THEN Step(h, "done", 0, <<Respond("200")>>, NoBytes, body)
     ELSE Route(h, body, NoBytes, Messages(payload), 1, AckThenFanOut)

\* the handler of a verified request, up to its first await
Accepted(h, body) ==
  LET payload == JSONparse(body)
  IN IF ~payload.ok THEN Step(h, "done", 0, AckThenFanOut, NoBytes, body)
     ELSE Route(h, body, NoBytes, Messages(payload), 1, AckThenFanOut)

\* res.sendStatus(401) without the return: the handler goes on
RejectedWithoutReturn(h, body) ==
  [Accepted(h, body) EXCEPT !.out = <<Respond("401")>> \o @]

\* the handler of a request with a bad signature: return res.sendStatus(401)
Rejected(h, body) == Step(h, "rejected", 0, <<Respond("401")>>, NoBytes, body)

postWa(h, body, headerSig) ==
  IF ~verifySignature(body, headerSig) THEN Rejected(h, body) ELSE Accepted(h, body)

(***************************************************************************)
(* Inputs: the requests the source may deliver.                            *)
(***************************************************************************)
MessageChoices ==
  {Msg("text", "A", TextOrdinary), Msg("text", "A", TextIntent),
   Msg("text", "B", TextOrdinary), Msg("text", "A", TextBlank),
   Msg("image", "A", <<>>)}

Docs == UNION {[1..n -> MessageChoices] : n \in 0..MaxMsgs}

Unparseable == Bytes(0, FALSE, FALSE, <<>>)

\* payloads of another shape: messages without type, sender or text, a null
\* element alone and after a message, a messages value that is no list
OtherShapes ==
  {<<Msg("", "A", TextOrdinary)>>, <<Msg("text", "", TextOrdinary)>>,
   <<Msg("text", "A", <<>>)>>, <<NullElement>>,
   <<Msg("text", "A", TextOrdinary), NullElement>>, NotIterable}

\* every payload of up to MaxMsgs messages, the payloads of another shape, an
\* unparseable body, and JSON without a messages array, with insignificant
\* whitespace
Bodies ==
  {Bytes(0, TRUE, TRUE, d) : d \in Docs \cup OtherShapes}
    \cup {Unparseable, Bytes(1, TRUE, FALSE, <<>>)}

\* the payloads delivered while another request is in flight
ConcurrentBodies ==
  {Bytes(0, TRUE, TRUE, <<Msg("text", "A", TextOrdinary)>>),
   Bytes(0, TRUE, TRUE, <<Msg("text", "A", TextIntent)>>),
   Bytes(0, TRUE, TRUE, <<Msg("text", "B", TextOrdinary)>>),
   Bytes(0, TRUE, TRUE, <<Msg("text", "A", TextIntent), Msg("text", "A", TextOrdinary)>>),
   Unparseable}

\* the body delivered with a bad signature header
ProbeBody == Bytes(0, TRUE, TRUE, <<Msg("text", "A", TextIntent)>>)

BadHeaders(body) ==
  {MissingHeader,
   Header(TRUE, SigLen, Hmac(<<"other">>, body)),
   Header(TRUE, SigLen - 1, Hmac(cfg.META_APP_SECRET, body))}

Requests ==
  {<<b, ExpectedHeader(cfg.META_APP_SECRET, b)>> : b \in env.bodies}
    \cup {<<ProbeBody, h>> : h \in BadHeaders(ProbeBody)}

\* one configuration of each variant, without observers
Configs ==
  {Config("routing", FALSE, FALSE, KeywordsDefault, FALSE, FALSE, FALSE),
   Config("summary", FALSE, FALSE, KeywordsDefault, TRUE, FALSE, FALSE),
   Config("bridge", TRUE, FALSE, KeywordsDefault, FALSE, TRUE, TRUE)}

\* the configurations of each variant over the settings it reads, with the
\* default keywords; and one of each handoff variant without keywords
AllConfigs ==
  {Config("routing", FALSE, cw, KeywordsDefault, FALSE, FALSE, FALSE) : cw \in BOOLEAN}
    \cup {Config("summary", cx, cw, KeywordsDefault, se, FALSE, FALSE) :
            cx \in BOOLEAN, cw \in BOOLEAN, se \in BOOLEAN}
    \cup {Config("bridge", cx, cw, KeywordsDefault, FALSE, cr, tn) :
            cx \in BOOLEAN, cw \in BOOLEAN, cr \in BOOLEAN, tn \in BOOLEAN}
    \cup {Config("summary", FALSE, TRUE, KeywordsEmpty, TRUE, FALSE, FALSE),
          Config("bridge", TRUE, TRUE, KeywordsBlank, FALSE, TRUE, TRUE)}

(***************************************************************************)
(* State and actions.                                                      *)
(***************************************************************************)
\* call: one application of injectSummaryIntoPayload on its own
Call(done, arg, summary, ret, rawAfter) ==
  [done |-> done, arg |-> arg, summary |-> summary, ret |-> ret, rawAfter |-> rawAfter]

NoCall == Call(FALSE, NoBytes, <<>>, NoBytes, NoBytes)

\* probe: one call of verifySignature on its own, or the latest GET /wa
NoProbe == [fn |-> "none"]

\* env: how many requests the source delivers, and with which bodies
InitWith(configs, n, bodies) ==
  /\ cfg \in configs
  /\ env = [events |-> n, bodies |-> bodies]
  /\ handoff = [w \in WaIds |-> FALSE]
  /\ pc = [e \in Events |-> "idle"]
  /\ idx = [e \in Events |-> 0]
  /\ raw = [e \in Events |-> NoBytes]
  /\ rcvd = [e \in Events |-> NoBytes]
  /\ hdr = [e \in Events |-> MissingHeader]
  /\ last = [e \in Events |-> "none"]
  /\ log = [e \in Events |-> <<>>]
  /\ fwd = [e \in Events |-> [t \in Targets |-> Fwd("none", NoBytes)]]
  /\ bridgeBody = [e \in Events |-> NoBytes]

\* a configuration with an observer, and the payloads delivered under it
ObservedConfigs ==
  {Config("summary", FALSE, TRUE, KeywordsDefault, TRUE, FALSE, FALSE)}

ObservedBodies ==
  {Bytes(0, TRUE, TRUE, <<Msg("text", "A", TextOrdinary)>>),
   Bytes(0, TRUE, TRUE, <<Msg("text", "A", TextIntent)>>)}

\* concurrent requests: one configuration per variant, or the observed one
Init ==
  /\ \/ InitWith(Configs, MaxEvents, ConcurrentBodies)
     \/ InitWith(ObservedConfigs, MaxEvents, ObservedBodies)
  /\ call = NoCall
  /\ probe = NoProbe

\* one request, every configuration and every body
InitOne == InitWith(AllConfigs, 1, Bodies) /\ call = NoCall /\ probe = NoProbe

\* the handler of request e runs on to its next await
Resume(e, outcome, r) ==
  /\ last' = [last EXCEPT ![e] = outcome]
  /\ handoff' = r.handoff
  /\ pc' = [pc EXCEPT ![e] = r.pc]
  /\ idx' = [idx EXCEPT ![e] = r.idx]
  /\ log' = [log EXCEPT ![e] = @ \o r.out]
  /\ bridgeBody' = [bridgeBody EXCEPT ![e] = r.bridgeBody]
  /\ raw' = [raw EXCEPT ![e] = r.raw]

\* the exception answered with a 500 after the acknowledgment
ThrewResponding(e, out) ==
  Step(handoff, "crashed", idx[e], out \o <<Respond("500")>>, bridgeBody[e], raw[e])

\* the handler threw: its promise rejects and the loop is abandoned
Threw(e, out) == Step(handoff, "crashed", idx[e], out, bridgeBody[e], raw[e])

\* the handler's local messages, parsed from the body when it began
MessagesOf(e) == Messages(JSONparse(rcvd[e]))

\* the loop passing over the message after the current one
NextMessageSkipping(e, out) ==
  Route(handoff, raw[e], bridgeBody[e], MessagesOf(e), idx[e] + 2, out)

\* the loop goes on with the message after the current one
NextMessage(e, out) ==
  Route(handoff, raw[e], bridgeBody[e], MessagesOf(e), idx[e] + 1, out)

\* the loop variable m
Current(e) == MessagesOf(e)[idx[e]]

\* POST /wa: requests arrive in the order of their numbers
PostWa(e) ==
  /\ pc[e] = "idle"
  /\ e <= env.events
  /\ \A d \in Events : d < e => pc[d] # "idle"
  /\ \E rq \in Requests :
       LET r == postWa(handoff, rq[1], rq[2])
       IN /\ Resume(e, "none", r)
          /\ rcvd' = [rcvd EXCEPT ![e] = rq[1]]
          /\ hdr' = [hdr EXCEPT ![e] = rq[2]]
          /\ fwd' = [fwd EXCEPT ![e] = IF r.pc = "rejected" THEN @ ELSE FanOutStart]
  /\ UNCHANGED <<cfg, env, call, probe>>

\* an observer forward of request e settles
FanOutSettle(e, t) ==
  /\ fwd[e][t].st = "pending"
  /\ \E outcome \in ForwardOutcomes :
       fwd' = [fwd EXCEPT ![e] = forwardRawJSONSettle(@, t, outcome, raw[e])]
  /\ UNCHANGED <<cfg, env, handoff, pc, idx, last, raw, rcvd, hdr, log, bridgeBody, call, probe>>

\* getAIReply: "reply" is a 2xx answer with a non-empty reply, "empty" a 2xx
\* answer without one or with a body that does not parse, "status" a non-2xx
\* answer, "throw" a transport exception; all but the first give null
AIOutcomes == {"reply", "empty", "status", "throw"}

\* the reply field taken from the body without looking at r.ok
getAIReplyIgnoringStatus(outcome) ==
  IF outcome \in {"reply", "status"} THEN ReplyText ELSE <<>>

getAIReply(outcome) == IF outcome = "reply" THEN ReplyText ELSE <<>>

AIReplySettle(e) ==
  /\ pc[e] = "aiReply"
  /\ \E outcome \in AIOutcomes :
       LET reply == getAIReply(outcome)
       IN Resume(e, outcome, IF reply # <<>>
                    THEN Step(handoff, "sendReply", idx[e],
                              <<Effect("sendReply", Current(e).from, reply)>>,
                              bridgeBody[e], raw[e])
                    ELSE NextMessage(e, <<>>))
  /\ UNCHANGED <<cfg, env, rcvd, hdr, fwd, call, probe>>

\* sendWaText / sendWaTextFromMain: a non-2xx answer is logged, a transport
\* exception is not caught
SendOutcomes == {"ok", "status", "throw"}

sendWaText(e, outcome) ==
  IF outcome = "throw" THEN Threw(e, <<>>) ELSE NextMessage(e, <<>>)

SendReplySettle(e) ==
  /\ pc[e] = "sendReply"
  /\ \E outcome \in SendOutcomes : Resume(e, outcome, sendWaText(e, outcome))
  /\ UNCHANGED <<cfg, env, rcvd, hdr, fwd, call, probe>>

(***************************************************************************)
(* Handoff in the summary variant: connecting message, summary, second     *)
(* message.                                                                *)
(***************************************************************************)
SendSummary(e, out, summary) ==
  Step(handoff, "summarySend", idx[e],
       out \o <<Effect("sendSummary", Current(e).from, <<"Summary so far:\n">> \o summary)>>,
       bridgeBody[e], raw[e])

\* the connecting message settles; getAISummary runs up to its fetch, or
\* returns the fallback at once when no endpoint is configured
ConnectSettle(e) ==
  /\ pc[e] = "connect"
  /\ \E outcome \in SendOutcomes :
       Resume(e, outcome, IF outcome = "throw" THEN Threw(e, <<>>)
                 ELSE IF ~cfg.OPENAI_SUMMARY_ENDPOINT
                   THEN SendSummary(e, <<>>, SummaryFallback)
                 ELSE Step(handoff, "summary", idx[e],
                           <<Effect("summary", Current(e).from, <<>>)>>,
                           bridgeBody[e], raw[e]))
  /\ UNCHANGED <<cfg, env, rcvd, hdr, fwd, call, probe>>

\* getAISummary: outcomes as for getAIReply, "summary" being the good one
SummaryOutcomes == {"summary", "empty", "status", "throw"}

getAISummary(outcome) == IF outcome = "summary" THEN SummaryText ELSE SummaryFallback

SummarySettle(e) ==
  /\ pc[e] = "summary"
  /\ \E outcome \in SummaryOutcomes :
       Resume(e, outcome, SendSummary(e, <<>>, getAISummary(outcome)))
  /\ UNCHANGED <<cfg, env, rcvd, hdr, fwd, call, probe>>

SummarySendSettle(e) ==
  /\ pc[e] = "summarySend"
  /\ \E outcome \in SendOutcomes : Resume(e, outcome, sendWaText(e, outcome))
  /\ UNCHANGED <<cfg, env, rcvd, hdr, fwd, call, probe>>

(***************************************************************************)
(* Handoff in the bridge variant: annotated forward to 3CX, then the       *)
(* window-opening send from the 3CX number.                                *)
(***************************************************************************)
\* the window-opening send made only after a successful bridge forward
BridgeSettleSkippingOnFailure(e) ==
  /\ pc[e] = "bridge"
  /\ \E outcome \in ForwardOutcomes :
       Resume(e, outcome,
              IF outcome = "ok"
                THEN sendTemplateFrom3cxNumber(handoff, raw[e], bridgeBody[e],
                                               MessagesOf(e), idx[e], <<>>)
                ELSE NextMessage(e, <<>>))
  /\ UNCHANGED <<cfg, env, rcvd, hdr, fwd, call, probe>>

\* await forwardRawJSON(THREE_CX_WEBHOOK_URL, injectedRaw, {}) settles; it
\* never throws
BridgeSettle(e) ==
  /\ pc[e] = "bridge"
  /\ \E outcome \in ForwardOutcomes :
       Resume(e, outcome, sendTemplateFrom3cxNumber(handoff, raw[e], bridgeBody[e],
                                                    MessagesOf(e), idx[e], <<>>))
  /\ UNCHANGED <<cfg, env, rcvd, hdr, fwd, call, probe>>

\* the template send settles: 2xx returns true, a non-2xx answer falls
\* through to the free-form send, a transport exception is not caught
TemplateSettle(e) ==
  /\ pc[e] = "template"
  /\ \E outcome \in SendOutcomes :
       Resume(e, outcome, IF outcome = "throw" THEN Threw(e, <<>>)
                 ELSE IF outcome = "ok" THEN NextMessage(e, <<>>)
                 ELSE Step(handoff, "freeform", idx[e],
                           <<Effect("freeform", Current(e).from, FreeformText)>>,
                           bridgeBody[e], raw[e]))
  /\ UNCHANGED <<cfg, env, rcvd, hdr, fwd, call, probe>>

FreeformSettle(e) ==
  /\ pc[e] = "freeform"
  /\ \E outcome \in SendOutcomes : Resume(e, outcome, sendWaText(e, outcome))
  /\ UNCHANGED <<cfg, env, rcvd, hdr, fwd, call, probe>>

Next ==
  \E e \in Events :
    \/ PostWa(e)
    \/ \E t \in Targets : FanOutSettle(e, t)
    \/ AIReplySettle(e)
    \/ SendReplySettle(e)
    \/ ConnectSettle(e)
    \/ SummarySettle(e)
    \/ SummarySendSettle(e)
    \/ BridgeSettle(e)
    \/ TemplateSettle(e)
    \/ FreeformSettle(e)

Spec == Init /\ [][Next]_vars

SpecOne == InitOne /\ [][Next]_vars

(***************************************************************************)
(* injectSummaryIntoPayload as a function of its arguments: any buffer,    *)
(* parseable or not, with or without whitespace, with or without messages. *)
(***************************************************************************)
\* payloads whose first text message has an empty text
EmptyTextDocs ==
  {<<Msg("text", "A", <<>>)>>,
   <<Msg("text", "A", <<>>), Msg("text", "A", TextOrdinary)>>,
   <<Msg("image", "A", <<>>), Msg("text", "A", <<>>)>>}

InjectBuffers ==
  {Bytes(ws, TRUE, TRUE, d) : ws \in 0..1, d \in Docs \cup OtherShapes \cup EmptyTextDocs}
    \cup {Bytes(ws, TRUE, FALSE, <<>>) : ws \in 0..1}
    \cup {Bytes(ws, FALSE, FALSE, <<>>) : ws \in 0..1}

InjectSummaries == {PlaceholderSummary, SummaryText}

InitInject ==
  /\ InitWith({c \in Configs : c.variant = "bridge"}, 0, {})
  /\ \E b \in InjectBuffers, t \in InjectSummaries :
       call = Call(FALSE, b, t, NoBytes, b)
  /\ probe = NoProbe

InjectCall ==
  /\ ~call.done
  /\ LET r == injectSummaryIntoPayload(call.arg, call.summary)
     IN call' = [call EXCEPT !.done = TRUE, !.ret = r.ret, !.rawAfter = r.rawAfter]
  /\ UNCHANGED <<cfg, env, handoff, pc, idx, last, raw, rcvd, hdr, log, fwd, bridgeBody, probe>>

NextInject == InjectCall

SpecInject == InitInject /\ [][NextInject]_vars

(***************************************************************************)
(* verifySignature as a function of the secret, the body and the header.   *)
(***************************************************************************)
Secrets == {<<"k">>, <<"j">>, <<>>}

\* bodies, two of them differing in one byte of whitespace
VerifyBodies ==
  {ProbeBody, Unparseable,
   Bytes(0, TRUE, TRUE, <<Msg("text", "A", TextOrdinary)>>),
   Bytes(1, TRUE, TRUE, <<Msg("text", "A", TextOrdinary)>>),
   Bytes(1, TRUE, FALSE, <<>>)}

\* no header, and the signature of any body under any key, whole or cut
\* short by one character
VerifyHeaders ==
  {MissingHeader}
    \cup {Header(TRUE, l, Hmac(s, b)) :
            l \in {SigLen, SigLen - 1}, s \in Secrets, b \in VerifyBodies}

VerifyProbe(secret, body, header, done, result) ==
  [fn |-> "verifySignature", secret |-> secret, body |-> body, header |-> header,
   done |-> done, result |-> result]

InitVerify ==
  /\ InitWith({[c EXCEPT !.META_APP_SECRET = s] : c \in Configs, s \in Secrets}, 0, {})
  /\ call = NoCall
  /\ \E b \in VerifyBodies, h \in VerifyHeaders :
       probe = VerifyProbe(cfg.META_APP_SECRET, b, h, FALSE, FALSE)

VerifyCall ==
  /\ probe.fn = "verifySignature" /\ ~probe.done
  /\ probe' = [probe EXCEPT !.done = TRUE,
                            !.result = verifySignature(probe.body, probe.header)]
  /\ UNCHANGED <<cfg, env, handoff, pc, idx, last, raw, rcvd, hdr, log, fwd, bridgeBody, call>>

NextVerify == VerifyCall

SpecVerify == InitVerify /\ [][NextVerify]_vars

(***************************************************************************)
(* GET /wa, the verification handshake, among the POST requests.           *)
(***************************************************************************)
\* hub.mode: the expected value, another value, another case, absent
Modes == {<<"subscribe">>, <<"unsubscribe">>, <<"Subscribe">>, <<>>}

\* hub.verify_token: the configured token, another one, absent
Tokens == {<<"t">>, <<"u">>, <<>>}

\* hub.challenge: a string, or absent
Challenges == {<<"c">>, <<>>}

\* res.sendStatus(403) sends the status text as body
Forbidden == <<"Forbidden">>

HandshakeResponse(status, body) == [status |-> status, body |-> body]

\* the handshake answered on the token alone
getWaAnyMode(mode, token, challenge) ==
  IF token = cfg.VERIFY_TOKEN THEN HandshakeResponse("200", challenge)
  ELSE HandshakeResponse("403", Forbidden)

\* app.get("/wa")
getWa(mode, token, challenge) ==
  IF mode = <<"subscribe">> /\ token = cfg.VERIFY_TOKEN
    THEN HandshakeResponse("200", challenge)
    ELSE HandshakeResponse("403", Forbidden)

GetProbe(mode, token, challenge, res) ==
  [fn |-> "getWa", mode |-> mode, token |-> token, challenge |-> challenge, res |-> res]

GetWa ==
  /\ \E mode \in Modes, token \in Tokens, challenge \in Challenges :
       probe' = GetProbe(mode, token, challenge, getWa(mode, token, challenge))
  /\ UNCHANGED <<cfg, env, handoff, pc, idx, last, raw, rcvd, hdr, log, fwd, bridgeBody, call>>

\* one POST request under a summary and a bridge configuration, and any
\* number of handshakes
InitGet ==
  /\ InitWith(ObservedConfigs \cup {c \in Configs : c.variant = "bridge"}, 1, ObservedBodies)
  /\ call = NoCall
  /\ probe = NoProbe

NextGet == Next \/ GetWa

SpecGet == InitGet /\ [][NextGet]_vars

(***************************************************************************)
(* sendTemplateFrom3cxNumber as a function of the configuration, the       *)
(* recipient and the way its fetches settle: the sends it attempts, and    *)
(* its result (threw: a fetch rejected and the function returned nothing). *)
(***************************************************************************)
TemplateRun(sends, result, threw) == [sends |-> sends, result |-> result, threw |-> threw]

\* the free-form send, after the sends already attempted
freeformRun(to, sent, outcome) ==
  LET sends == sent \o <<Effect("freeform", to, FreeformText)>>
  IN IF outcome = "throw" THEN TemplateRun(sends, FALSE, TRUE)
     ELSE TemplateRun(sends, outcome = "ok", FALSE)

\* a rejected template answered with false, without the free-form send
sendTemplateNoFallback(to, templateOutcome, freeformOutcome) ==
  IF ~cfg.THREE_CX_CREDENTIALS THEN TemplateRun(<<>>, FALSE, FALSE)
  ELSE IF cfg.HANDOFF_TEMPLATE_NAME
    THEN IF templateOutcome = "throw"
           THEN TemplateRun(<<Effect("template", to, <<>>)>>, FALSE, TRUE)
           ELSE TemplateRun(<<Effect("template", to, <<>>)>>, templateOutcome = "ok", FALSE)
    ELSE freeformRun(to, <<>>, freeformOutcome)

sendTemplateRun(to, templateOutcome, freeformOutcome) ==
  IF ~cfg.THREE_CX_CREDENTIALS THEN TemplateRun(<<>>, FALSE, FALSE)
  ELSE IF cfg.HANDOFF_TEMPLATE_NAME
    THEN IF templateOutcome = "throw"
           THEN TemplateRun(<<Effect("template", to, <<>>)>>, FALSE, TRUE)
         ELSE IF templateOutcome = "ok"
           THEN TemplateRun(<<Effect("template", to, <<>>)>>, TRUE, FALSE)
         ELSE freeformRun(to, <<Effect("template", to, <<>>)>>, freeformOutcome)
    ELSE freeformRun(to, <<>>, freeformOutcome)

TemplateProbe(to, templateOutcome, freeformOutcome, done, run) ==
  [fn |-> "sendTemplateFrom3cxNumber", to |-> to, templateOutcome |-> templateOutcome,
   freeformOutcome |-> freeformOutcome, done |-> done, run |-> run]

InitTemplate ==
  /\ InitWith({c \in AllConfigs : c.variant = "bridge"}, 0, {})
  /\ call = NoCall
  /\ \E to \in WaIds, o1 \in SendOutcomes, o2 \in SendOutcomes :
       probe = TemplateProbe(to, o1, o2, FALSE, TemplateRun(<<>>, FALSE, FALSE))

TemplateCall ==
  /\ probe.fn = "sendTemplateFrom3cxNumber" /\ ~probe.done
  /\ probe' = [probe EXCEPT
                 !.done = TRUE,
                 !.run = sendTemplateRun(probe.to, probe.templateOutcome,
                                         probe.freeformOutcome)]
  /\ UNCHANGED <<cfg, env, handoff, pc, idx, last, raw, rcvd, hdr, log, fwd, bridgeBody, call>>

NextTemplate == TemplateCall

SpecTemplate == InitTemplate /\ [][NextTemplate]_vars

(***************************************************************************)
(* Properties.                                                             *)
(***************************************************************************)
\* the request carries the signature of its body under the shared secret
ValidSignature(e) == hdr[e] = ExpectedHeader(cfg.META_APP_SECRET, rcvd[e])

Received(e) == pc[e] # "idle"

\* the effects request e produces in the step
NewEffects(e) == SubSeq(log'[e], Len(log[e]) + 1, Len(log'[e]))

HasEffect(e, k) == \E i \in 1..Len(log[e]) : log[e][i].k = k

\* C1: for a request with a valid signature the 200 acknowledgment is
\* written before any outbound call begins, and it is written whether or
\* not any outbound call ever settles.
C1_AckBeforeOutbound ==
  \A e \in Events :
    /\ \A i \in 1..Len(log[e]) :
         log[e][i].k \in OutboundKinds =>
           \E j \in 1..(i - 1) : log[e][j] = Respond("200")
    /\ Received(e) /\ ValidSignature(e) => log[e] # <<>> /\ log[e][1] = Respond("200")

\* C1 witness: acknowledged, with an observer forward and the AI call both
\* begun and neither settled
C1_Witness ==
  \E e \in Events :
    /\ pc[e] = "aiReply" /\ last[e] = "none"
    /\ fwd[e]["chatwoot"].st = "pending"
    /\ log[e][1] = Respond("200")

\* C2: a request whose signature header is missing or wrong is answered 401
\* and causes no forward, no AI call, no send and no change of any handoff
\* flag.
C2_RejectedState ==
  \A e \in Events :
    Received(e) /\ ~ValidSignature(e) =>
      /\ pc[e] = "rejected"
      /\ log[e] = <<Respond("401")>>
      /\ \A t \in Targets : fwd[e][t].st = "none"

C2_RejectedStep ==
  \A e \in Events :
    ~Received(e) /\ Received(e)' /\ ~ValidSignature(e)' => handoff' = handoff

C3_NoReplyAfterHandoff ==
  [][\A e \in Events :
       \A i \in 1..Len(NewEffects(e)) :
         NewEffects(e)[i].k = "sendReply" => ~handoff[NewEffects(e)[i].to]]_vars

\* C4: once the handoff flag of a conversation is set, no AI-backend call is
\* issued for that conversation any more.
C4_NoAICallAfterHandoff ==
  [][\A e \in Events :
       \A i \in 1..Len(NewEffects(e)) :
         NewEffects(e)[i].k = "ai" => ~handoff'[NewEffects(e)[i].to]]_vars

\* C4 witness: a request with an ordinary message of a handed-off
\* conversation has run to its end without an AI call
C4_Witness ==
  \E e \in Events :
    /\ pc[e] = "done" /\ handoff["A"]
    /\ rcvd[e] = Bytes(0, TRUE, TRUE, <<Msg("text", "A", TextOrdinary)>>)
    /\ ~HasEffect(e, "ai")

\* C5: a handoff flag that is true stays true.
C5_HandoffMonotonic == [][\A w \in WaIds : handoff[w] => handoff'[w]]_vars

\* C5 witness: two requests in flight have both triggered the handoff of the
\* same conversation
C5_Witness ==
  /\ handoff["A"]
  /\ \A e \in 1..2 :
       /\ pc[e] \in {"connect", "bridge"}
       /\ rcvd[e] = Bytes(0, TRUE, TRUE, <<Msg("text", "A", TextIntent)>>)

\* a message the loop acts on: a text message with a sender and a text
Routable(m) == m.type = "text" /\ m.from # "" /\ Trim(m.body) # <<>>

NoKeywords == \A i \in 1..Len(cfg.HANDOFF_KEYWORDS) : IsSpace(cfg.HANDOFF_KEYWORDS[i])

HandoffKinds == {"sendConnect", "sendSummary", "summary", "bridge", "template", "freeform"}

\* C7: with an empty or whitespace-only keyword configuration no message
\* triggers a handoff: no flag is set and no handoff effect is produced.
C7_NoKeywordsNoHandoff ==
  NoKeywords =>
    /\ \A w \in WaIds : ~handoff[w]
    /\ \A e \in Events : \A i \in 1..Len(log[e]) : log[e][i].k \notin HandoffKinds

\* the fan-out targets with a url: the forwards the handler begins
Configured(t) == Url(t) /\ \E k \in 1..Len(FanOutTargets) : FanOutTargets[k] = t

\* C8: every configured observer forward of an acknowledged request is
\* issued, and a forward that fails changes the record of its own target
\* only: the other forwards, the handler, the acknowledgment and the flags
\* are as they were.
C8_AllIssued ==
  \A e \in Events :
    Received(e) /\ ValidSignature(e) =>
      \A t \in Targets : Configured(t) => fwd[e][t].st \in {"pending", "ok", "failed"}

C8_FailureIsLocal ==
  \A e \in Events : \A t \in Targets :
    fwd[e][t].st = "pending" /\ fwd'[e][t].st = "failed" =>
      /\ \A u \in Targets \ {t} : fwd'[e][u] = fwd[e][u]
      /\ \A d \in Events \ {e} : fwd'[d] = fwd[d]
      /\ pc' = pc /\ log' = log /\ handoff' = handoff

C8_FanOutIsolation == [](C8_AllIssued) /\ [][C8_FailureIsLocal]_vars

\* C8 witness: of two observers one has failed and the other has succeeded,
\* the acknowledgment standing
C8_Witness ==
  \E e \in Events :
    /\ fwd[e]["3cx"].st = "failed" /\ fwd[e]["chatwoot"].st = "ok"
    /\ log[e][1] = Respond("200")

\* C9: the body an observer forward carries is the bytes received; building
\* the annotated copy leaves the request's raw buffer as received.
C9_ObserversGetRawBytes ==
  \A e \in Events :
    Received(e) =>
      /\ raw[e] = rcvd[e]
      /\ \A t \in Targets : fwd[e][t].st \in {"ok", "failed"} => fwd[e][t].sent = rcvd[e]

\* C9 witness: the annotated copy has been built, it differs from the bytes
\* received, and the observer forward, begun before, has settled after
C9_Witness ==
  \E e \in Events :
    /\ bridgeBody[e] \notin {NoBytes, rcvd[e]}
    /\ pc[e] = "template"
    /\ fwd[e]["chatwoot"].st = "ok"
    /\ fwd[e]["chatwoot"].sent = rcvd[e]

\* the payload holds no message of type text, or does not parse
NoTextMessage(b) ==
  ~b.ok \/ ~b.hasMsgs \/ \A i \in 1..Len(b.msgs) : b.msgs[i].type # "text"

\* C10: on a payload without a text message, or one that does not parse,
\* inject returns bytes identical to its input.
C10_InjectIdentityWithoutText ==
  call.done /\ NoTextMessage(call.arg) => call.ret = call.arg

\* how many effects of request e are of a kind in kinds and go to conversation w
RECURSIVE CountIn(_, _, _)
CountIn(effects, kinds, w) ==
  IF effects = <<>> THEN 0
  ELSE (IF Head(effects).k \in kinds /\ Head(effects).to = w THEN 1 ELSE 0)
         + CountIn(Tail(effects), kinds, w)

\* the messages of request e, up to message n, that express handoff intent
\* for conversation w
IntentMessages(e, n, w) ==
  {i \in 1..n : /\ i <= Len(MessagesOf(e))
                /\ Routable(MessagesOf(e)[i])
                /\ MessagesOf(e)[i].from = w
                /\ HandoffIntent(Trim(MessagesOf(e)[i].body))}

WindowOpeningKinds == {"template", "freeform"}

\* request e takes a step of its handler
HandlerStep(e) == pc'[e] # pc[e] \/ idx'[e] # idx[e]

\* C11, as amended: with the 3CX sender's credentials configured, a request
\* routed to its end has sent for each handoff-intent message one
\* window-opening message to its conversation: the template when a template
\* name is configured, followed by the free-form text only when the template
\* send was answered with a non-success status; the send follows the bridge
\* forward whether that succeeded, failed or threw.  Without the credentials
\* no window-opening message is sent.
C11_WindowOpeningSent ==
  \A e \in Events :
    cfg.variant = "bridge" /\ pc[e] = "done" =>
      \A w \in WaIds :
        LET n == Cardinality(IntentMessages(e, Len(MessagesOf(e)), w))
            templates == CountIn(log[e], {"template"}, w)
            freeforms == CountIn(log[e], {"freeform"}, w)
        IN IF ~cfg.THREE_CX_CREDENTIALS THEN templates = 0 /\ freeforms = 0
           ELSE IF cfg.HANDOFF_TEMPLATE_NAME THEN templates = n /\ freeforms <= n
           ELSE templates = 0 /\ freeforms = n

C11_AfterBridge ==
  \A e \in Events :
    pc[e] = "bridge" /\ HandlerStep(e) /\ cfg.THREE_CX_CREDENTIALS =>
      /\ NewEffects(e) # <<>>
      /\ NewEffects(e)[1].k \in WindowOpeningKinds
      /\ NewEffects(e)[1].to = Current(e).from

C11_FallbackOnReject ==
  \A e \in Events :
    pc[e] = "template" /\ HandlerStep(e) =>
      (last'[e] = "status"
         <=> /\ NewEffects(e) # <<>>
             /\ NewEffects(e)[1] = Effect("freeform", Current(e).from, FreeformText))

C11_WindowOpeningWhenConfigured ==
  [](C11_WindowOpeningSent) /\ [][C11_AfterBridge /\ C11_FallbackOnReject]_vars

\* C11 witness: the bridge forward has thrown and the template send to the
\* conversation has begun
C11_Witness ==
  \E e \in Events :
    /\ pc[e] = "template" /\ last[e] = "throw"
    /\ HasEffect(e, "bridge")
    /\ CountIn(log[e], {"template"}, Current(e).from) = 1

\* C11, as stated: in the bridge variant a request that has been routed to
\* its end has sent, for each handoff-intent message, exactly one
\* window-opening message to that message's conversation.
C11_OneWindowOpeningSend ==
  \A e \in Events :
    cfg.variant = "bridge" /\ pc[e] = "done" =>
      \A w \in WaIds :
        CountIn(log[e], WindowOpeningKinds, w)
          = Cardinality(IntentMessages(e, Len(MessagesOf(e)), w))

\* the messages whose loop body request e begins in the step
BegunInStep(e) ==
  {i \in (idx[e] + 1)..idx'[e] : i <= Len(Messages(JSONparse(rcvd'[e])))}

\* C12: a text message with handoff intent leaves its conversation's flag
\* true, whatever the flag was, and no AI-backend call carries its text.
C12_FlagSet ==
  \A e \in Events :
    \A i \in BegunInStep(e) :
      LET m == Messages(JSONparse(rcvd'[e]))[i]
      IN Routable(m) /\ HandoffIntent(Trim(m.body)) => handoff'[m.from]

C12_NoAICall ==
  \A e \in Events :
    \A i \in 1..Len(log[e]) : log[e][i].k = "ai" => ~HandoffIntent(log[e][i].txt)

C12_IntentSetsFlagNoAI == [](C12_NoAICall) /\ [][C12_FlagSet]_vars

\* C12 witness: a request with two handoff-intent messages of one
\* conversation has been routed to its end, the second one met the flag set
C12_Witness ==
  \E e \in Events :
    /\ pc[e] = "done" /\ handoff["A"]
    /\ rcvd[e] = Bytes(0, TRUE, TRUE, <<Msg("text", "A", TextIntent), Msg("text", "A", TextIntent)>>)
    /\ ~HasEffect(e, "ai")

\* message i of request e takes the AI path when e is the only request: it
\* is routable, has no handoff intent, and no earlier message of e has set
\* its conversation's flag
AIMessage(e, i) ==
  LET m == MessagesOf(e)[i]
  IN /\ Routable(m)
     /\ ~HandoffIntent(Trim(m.body))
     /\ IntentMessages(e, i - 1, m.from) = {}

RECURSIVE ExpectedAICalls(_, _, _)
ExpectedAICalls(e, i, n) ==
  IF i > n THEN <<>>
  ELSE (IF AIMessage(e, i)
          THEN <<Effect("ai", MessagesOf(e)[i].from, Trim(MessagesOf(e)[i].body))>>
          ELSE <<>>) \o ExpectedAICalls(e, i + 1, n)

\* the messages of request e whose loop body has begun
Begun(e) == IF idx[e] > Len(MessagesOf(e)) THEN Len(MessagesOf(e)) ELSE idx[e]

\* C13: the AI-backend calls of a request are, in order, one call per text
\* message without handoff intent whose conversation is not in handoff mode,
\* each with that conversation's id and the message's text; a flag is set
\* only by a message with handoff intent; and when an AI call settles, a
\* message is sent if and only if the backend answered with a non-empty
\* reply, to the conversation of the call and with the reply as its text.
C13_AICallsExact ==
  \A e \in Events :
    SelectSeq(log[e], LAMBDA x : x.k = "ai") = ExpectedAICalls(e, 1, Begun(e))

C13_NoFlagWithoutIntent ==
  \A e \in Events : \A w \in WaIds :
    handoff[w] => \E d \in Events : IntentMessages(d, Begun(d), w) # {}

C13_ReplyIffSuccess ==
  \A e \in Events :
    pc[e] = "aiReply" /\ (pc'[e] # pc[e] \/ idx'[e] # idx[e]) =>
      /\ (\E i \in 1..Len(NewEffects(e)) : NewEffects(e)[i].k = "sendReply")
           <=> last'[e] = "reply"
      /\ \A i \in 1..Len(NewEffects(e)) :
           NewEffects(e)[i].k = "sendReply" =>
             NewEffects(e)[i] = Effect("sendReply", Current(e).from, ReplyText)

C13_OneAICallReplyRelayed ==
  [](C13_AICallsExact /\ C13_NoFlagWithoutIntent) /\ [][C13_ReplyIffSuccess]_vars

\* C13 witness: of two ordinary messages of two conversations both had their
\* AI call, one reply was relayed and the other call gave no reply
C13_Witness ==
  \E e \in Events :
    /\ pc[e] = "done"
    /\ rcvd[e] = Bytes(0, TRUE, TRUE, <<Msg("text", "A", TextOrdinary), Msg("text", "B", TextOrdinary)>>)
    /\ CountIn(log[e], {"ai"}, "A") = 1 /\ CountIn(log[e], {"ai"}, "B") = 1
    /\ CountIn(log[e], {"sendReply"}, "A") = 1 /\ CountIn(log[e], {"sendReply"}, "B") = 0
    /\ ~handoff["A"] /\ ~handoff["B"]

\* the responses request e has been given
Responses(e) == SelectSeq(log[e], LAMBDA x : x.k = "respond")

\* C14: a request that has been received has exactly one response, 401 for
\* an invalid signature and 200 otherwise, written before anything else; and
\* nothing that happens afterwards changes, repeats or withdraws it.
C14_OneResponse ==
  \A e \in Events :
    Received(e) =>
      /\ Responses(e) = <<Respond(IF ValidSignature(e) THEN "200" ELSE "401")>>
      /\ log[e][1].k = "respond"

C14_ResponseStands ==
  \A e \in Events :
    Received(e) =>
      /\ Len(log'[e]) >= Len(log[e])
      /\ SubSeq(log'[e], 1, Len(log[e])) = log[e]
      /\ hdr'[e] = hdr[e] /\ rcvd'[e] = rcvd[e]

Malformed(e) == Received(e) /\ ValidSignature(e) /\ ~JSONparse(rcvd[e]).ok

\* C15: an acknowledged request whose body does not parse is at its end with
\* nothing but the acknowledgment and the observer forwards begun: no AI
\* call, no send; every configured forward was begun and carries the raw
\* bytes; and receiving the request changes no handoff flag.
C15_MalformedState ==
  \A e \in Events :
    Malformed(e) =>
      /\ pc[e] = "done"
      /\ \A i \in 1..Len(log[e]) : log[e][i].k \in {"respond", "forward"}
      /\ \A t \in Targets :
           Configured(t) =>
             /\ \E i \in 1..Len(log[e]) : log[e][i] = Effect("forward", t, <<>>)
             /\ fwd[e][t].st \in {"pending", "ok", "failed"}
             /\ fwd[e][t].st # "pending" => fwd[e][t].sent = rcvd[e]

C15_MalformedStep ==
  \A e \in Events : ~Received(e) /\ Malformed(e)' => handoff' = handoff

C15_MalformedEndsRouting == [](C15_MalformedState) /\ [][C15_MalformedStep]_vars

\* C15 witness: routing of an unparseable body has ended, and afterwards one
\* observer forward has succeeded and the other has failed
C15_Witness ==
  \E e \in Events :
    /\ Malformed(e) /\ pc[e] = "done"
    /\ fwd[e]["3cx"].st = "ok" /\ fwd[e]["3cx"].sent = rcvd[e]
    /\ fwd[e]["chatwoot"].st = "failed"

\* C16: in the summary variant every connecting message is followed by a
\* second message to the same conversation, so that a handler that has
\* stopped has sent as many second messages as connecting ones; the second
\* message carries the backend's summary when the backend answered with
\* one, and the fallback phrase otherwise.
C16_SecondAlwaysSent ==
  \A e \in Events :
    cfg.variant = "summary" /\ pc[e] \in {"done", "crashed"} =>
      \A w \in WaIds :
        CountIn(log[e], {"sendSummary"}, w) = CountIn(log[e], {"sendConnect"}, w)

C16_SecondText ==
  \A e \in Events :
    pc[e] \in {"connect", "summary"} /\ HandlerStep(e) =>
      \A i \in 1..Len(NewEffects(e)) :
        NewEffects(e)[i].k = "sendSummary" =>
          NewEffects(e)[i].txt =
            <<"Summary so far:\n">>
              \o (IF pc[e] = "summary" /\ last'[e] = "summary"
                    THEN SummaryText ELSE SummaryFallback)

C16_SummaryOrFallbackSent == [](C16_SecondAlwaysSent) /\ [][C16_SecondText]_vars

\* C17: verifySignature is true exactly when a secret is configured and the
\* header is "sha256=" and the HMAC of the received bytes under that secret:
\* false for the signature of any other body or under any other key, for a
\* missing header, a missing secret and a header of another length.
C17_VerifyIffExpected ==
  probe.fn = "verifySignature" /\ probe.done =>
    (probe.result
       <=> /\ probe.secret # <<>>
           /\ probe.header = ExpectedHeader(probe.secret, probe.body))

\* C17 witness: the signature of a body differing in one byte was refused
C17_Witness ==
  /\ probe.fn = "verifySignature" /\ probe.done /\ ~probe.result
  /\ probe.secret = <<"k">>
  /\ probe.body = Bytes(1, TRUE, TRUE, <<Msg("text", "A", TextOrdinary)>>)
  /\ probe.header
       = ExpectedHeader(<<"k">>, Bytes(0, TRUE, TRUE, <<Msg("text", "A", TextOrdinary)>>))

\* C18: the handshake answers 200 with the challenge as body exactly when
\* the mode is "subscribe" and the token is the configured one, and 403 with
\* the fixed status text otherwise; answering it changes nothing of the
\* proxy's state and begins no outbound call.
C18_Response ==
  probe.fn = "getWa" =>
    IF probe.mode = <<"subscribe">> /\ probe.token = cfg.VERIFY_TOKEN
      THEN probe.res = HandshakeResponse("200", probe.challenge)
      ELSE probe.res.status = "403" /\ probe.res.body = Forbidden

C18_NoEffect ==
  probe' # probe =>
    UNCHANGED <<cfg, env, handoff, pc, idx, last, raw, rcvd, hdr, log, fwd, bridgeBody, call>>

C18_Handshake == [](C18_Response) /\ [][C18_NoEffect]_vars

\* C18 witness: a handshake in another mode with the right token was refused
\* while a conversation is handed off and its request is in flight
C18_Witness ==
  /\ probe.fn = "getWa" /\ probe.res.status = "403"
  /\ probe.mode = <<"unsubscribe">> /\ probe.token = cfg.VERIFY_TOKEN
  /\ probe.challenge = <<"c">>
  /\ handoff["A"] /\ pc[1] = "summary"

\* one AI call for each routable message from message i to message n
RECURSIVE RoutableCalls(_, _, _)
RoutableCalls(e, i, n) ==
  IF i > n THEN <<>>
  ELSE (IF Routable(MessagesOf(e)[i])
          THEN <<Effect("ai", MessagesOf(e)[i].from, Trim(MessagesOf(e)[i].body))>>
          ELSE <<>>) \o RoutableCalls(e, i + 1, n)

\* C19: in the routing-only variant the AI calls of a request are, in order,
\* one call for each text message with a sender and a non-blank text,
\* whatever the text and whatever earlier requests carried; no flag is ever
\* set.
C19_RoutingCallsEveryMessage ==
  cfg.variant = "routing" =>
    /\ \A e \in Events :
         SelectSeq(log[e], LAMBDA x : x.k = "ai") = RoutableCalls(e, 1, Begun(e))
    /\ \A w \in WaIds : ~handoff[w]

\* C19 witness: after a request with a handoff keyword from a conversation,
\* a later request of the same conversation has had its AI call, as had the
\* message with the keyword
C19_Witness ==
  /\ cfg.variant = "routing"
  /\ rcvd[1] = Bytes(0, TRUE, TRUE, <<Msg("text", "A", TextIntent)>>)
  /\ pc[1] = "done" /\ CountIn(log[1], {"ai"}, "A") = 1
  /\ rcvd[2] = Bytes(0, TRUE, TRUE, <<Msg("text", "A", TextOrdinary)>>)
  /\ pc[2] = "done" /\ CountIn(log[2], {"ai"}, "A") = 1

\* the last effect request e produces in the step
LastNew(e) == NewEffects(e)[Len(NewEffects(e))]

\* C20: a handoff-intent message whose conversation is already in handoff
\* mode starts the handoff side effects again (the connecting message in the
\* summary variant; in the bridge variant the annotated forward, or without
\* a bridge url the window-opening send), leaves the flag true and begins no
\* AI call for the conversation.
C20_Retrigger ==
  \A e \in Events :
    \A i \in BegunInStep(e) :
      LET m == Messages(JSONparse(rcvd'[e]))[i]
      IN Routable(m) /\ HandoffIntent(Trim(m.body)) /\ handoff[m.from] =>
           /\ handoff'[m.from]
           /\ \A k \in 1..Len(NewEffects(e)) :
                ~(NewEffects(e)[k].k = "ai" /\ NewEffects(e)[k].to = m.from)
           /\ IF cfg.variant = "summary"
                THEN /\ idx'[e] = i /\ pc'[e] = "connect"
                     /\ LastNew(e) = Effect("sendConnect", m.from, ConnectText)
              ELSE IF cfg.THREE_CX_WEBHOOK_URL
                THEN /\ idx'[e] = i /\ pc'[e] = "bridge"
                     /\ LastNew(e) = Effect("bridge", "3cx", <<>>)
              ELSE IF cfg.THREE_CX_CREDENTIALS
                THEN /\ idx'[e] = i /\ pc'[e] \in {"template", "freeform"}
                     /\ LastNew(e).k \in WindowOpeningKinds /\ LastNew(e).to = m.from
              ELSE TRUE

\* a request of the summary variant routed to its end has sent a connecting
\* message and a second message for each handoff-intent message
C20_AllRun ==
  \A e \in Events :
    cfg.variant = "summary" /\ pc[e] = "done" =>
      \A w \in WaIds :
        /\ CountIn(log[e], {"sendConnect"}, w)
             = Cardinality(IntentMessages(e, Len(MessagesOf(e)), w))
        /\ CountIn(log[e], {"sendSummary"}, w)
             = Cardinality(IntentMessages(e, Len(MessagesOf(e)), w))

C20_HandoffRerun == [](C20_AllRun) /\ [][C20_Retrigger]_vars

\* C20 witness: in the bridge variant the second handoff-intent message of a
\* conversation has had its own annotated forward and template send
C20_Witness ==
  \E e \in Events :
    /\ cfg.variant = "bridge" /\ pc[e] = "done" /\ handoff["A"]
    /\ rcvd[e] = Bytes(0, TRUE, TRUE, <<Msg("text", "A", TextIntent), Msg("text", "A", TextIntent)>>)
    /\ CountIn(log[e], {"bridge"}, "3cx") = 2
    /\ CountIn(log[e], {"template"}, "A") = 2

\* message m is an ordinary text of a conversation in handoff mode
OrdinaryInHandoff(m) ==
  Routable(m) /\ ~HandoffIntent(Trim(m.body)) /\ cfg.variant # "routing" /\ handoff[m.from]

\* C21: an ordinary text message of a conversation already in handoff mode
\* is passed over: the handler does not stop at it and is not abandoned, and
\* the flag stays; a request made only of such messages ends at once with
\* nothing but the acknowledgment and the observer forwards, and no flag
\* changed.
C21_PassedOver ==
  \A e \in Events :
    \A i \in BegunInStep(e) :
      OrdinaryInHandoff(Messages(JSONparse(rcvd'[e]))[i]) =>
        /\ idx'[e] > i
        /\ pc'[e] # "crashed"
        /\ handoff'[Messages(JSONparse(rcvd'[e]))[i].from]

C21_OnlyFanOut ==
  \A e \in Events :
    LET msgs == Messages(JSONparse(rcvd'[e]))
    IN /\ ~Received(e) /\ Received(e)' /\ ValidSignature(e)'
       /\ msgs # <<>>
       /\ \A i \in 1..Len(msgs) : OrdinaryInHandoff(msgs[i])
       => /\ pc'[e] = "done"
          /\ handoff' = handoff
          /\ \A k \in 1..Len(NewEffects(e)) : NewEffects(e)[k].k \in {"respond", "forward"}
          /\ \A t \in Targets : Configured(t) => fwd'[e][t].st = "pending"

C21_OrdinaryInHandoffInert == [][C21_PassedOver /\ C21_OnlyFanOut]_vars

\* C21 witness: an ordinary message of a handed-off conversation has been
\* received; its request is at its end with the acknowledgment and the
\* observer forward, which has settled
C21_Witness ==
  \E e \in Events :
    /\ pc[e] = "done" /\ handoff["A"]
    /\ rcvd[e] = Bytes(0, TRUE, TRUE, <<Msg("text", "A", TextOrdinary)>>)
    /\ log[e] = <<Respond("200"), Effect("forward", "chatwoot", <<>>)>>
    /\ fwd[e]["chatwoot"].st = "ok"

\* C22: routing and fan-out do not wait for each other.  The first call of
\* routing is begun in the run of the handler that begins the forwards, not
\* after they settle; a settling forward, failed or not, changes nothing of
\* routing; and a step of the handler, its abandonment included, changes
\* nothing of the forwards.
C22_FirstCallWithFanOut ==
  \A e \in Events :
    /\ Received(e) /\ ValidSignature(e) /\ JSONparse(rcvd[e]).ok
    /\ MessagesOf(e) # <<>> /\ AIMessage(e, 1)
    => HasEffect(e, "ai")

C22_Separate ==
  \A e \in Events :
    Received(e) =>
      /\ fwd'[e] # fwd[e] =>
           /\ pc' = pc /\ idx' = idx /\ log' = log /\ last' = last
           /\ handoff' = handoff /\ bridgeBody' = bridgeBody
      /\ HandlerStep(e) => fwd'[e] = fwd[e]

C23_TemplateWithFallback ==
  probe.fn = "sendTemplateFrom3cxNumber" /\ probe.done =>
    LET template == Effect("template", probe.to, <<>>)
        freeform == Effect("freeform", probe.to, FreeformText)
        sends == probe.run.sends
        lastOutcome ==
          IF sends[Len(sends)].k = "template" THEN probe.templateOutcome
          ELSE probe.freeformOutcome
    IN /\ ~cfg.THREE_CX_CREDENTIALS =>
            sends = <<>> /\ ~probe.run.result /\ ~probe.run.threw
       /\ cfg.THREE_CX_CREDENTIALS /\ cfg.HANDOFF_TEMPLATE_NAME =>
            /\ probe.templateOutcome = "ok" => sends = <<template>>
            /\ probe.templateOutcome = "status" => sends = <<template, freeform>>
       /\ cfg.THREE_CX_CREDENTIALS /\ ~cfg.HANDOFF_TEMPLATE_NAME => sends = <<freeform>>
       /\ sends # <<>> /\ ~probe.run.threw => (probe.run.result <=> lastOutcome = "ok")

\* C23 witness: the template was refused and the free-form send succeeded
C23_Witness ==
  /\ probe.fn = "sendTemplateFrom3cxNumber" /\ probe.done
  /\ probe.templateOutcome = "status" /\ probe.freeformOutcome = "ok"
  /\ Len(probe.run.sends) = 2 /\ probe.run.result

\* no message of request e has a type, a sender and a text
NothingRoutable(e) ==
  MessagesOf(e) = NotIterable
    \/ \A i \in 1..Len(MessagesOf(e)) : ~Routable(MessagesOf(e)[i])

\* C24: whatever the shape of a verified body that parses, routing raises no
\* error because of it: a handler is abandoned only by a call that threw;
\* and a body without a message of the expected shape has nothing routed.
C24_ShapeNeverRaises ==
  \A e \in Events :
    /\ pc[e] = "crashed" => last[e] = "throw"
    /\ Received(e) /\ ValidSignature(e) /\ NothingRoutable(e) =>
         /\ pc[e] = "done"
         /\ \A k \in 1..Len(log[e]) : log[e][k].k \in {"respond", "forward"}

\* the first message of type text, whatever its text; 0 when there is none
FirstOfTypeText(msgs) ==
  IF \E i \in 1..Len(msgs) : msgs[i].type = "text"
  THEN CHOOSE i \in 1..Len(msgs) :
         msgs[i].type = "text" /\ \A j \in 1..(i - 1) : msgs[j].type # "text"
  ELSE 0

\* C25: on a payload with a text message, inject appends the annotation with
\* the summary to the first message of type text, keeping its text as the
\* prefix, and changes no other message or field, also when that text is
\* empty.
C25_InjectAnnotatesFirstText ==
  call.done /\ call.arg.ok /\ call.arg.hasMsgs
    /\ call.arg.msgs # NotIterable /\ FirstOfTypeText(call.arg.msgs) > 0 =>
      LET i == FirstOfTypeText(call.arg.msgs)
          before == call.arg.msgs
          after == call.ret.msgs
      IN /\ call.ret.ok /\ call.ret.hasMsgs
         /\ Len(after) = Len(before)
         /\ after[i] = [before[i] EXCEPT !.body = @ \o AnnotationMark \o call.summary]
         /\ \A j \in 1..Len(before) : j # i => after[j] = before[j]

(***************************************************************************)
(* Progress: every fetch the handler awaits, and every forward in flight,  *)
(* settles at some time with one of its outcomes.                          *)
(***************************************************************************)
Settle(e) ==
  \/ \E t \in Targets : FanOutSettle(e, t)
  \/ AIReplySettle(e)
  \/ SendReplySettle(e)
  \/ ConnectSettle(e)
  \/ SummarySettle(e)
  \/ SummarySendSettle(e)
  \/ BridgeSettle(e)
  \/ TemplateSettle(e)
  \/ FreeformSettle(e)

SpecLive == InitOne /\ [][Next]_vars /\ \A e \in Events : WF_vars(Settle(e))

\* the fan-out of request e and the routing of all its messages have finished
Done(e) == pc[e] = "done" /\ \A t \in Targets : fwd[e][t].st # "pending"

\* C26: when every outbound call settles, a request with a valid signature
\* reaches the state in which its fan-out and the routing of all its
\* messages have finished, and a request with an invalid signature ends
\* rejected.
C26_EventuallyDone ==
  /\ \A e \in Events : (Received(e) /\ ValidSignature(e)) ~> Done(e)
  /\ \A e \in Events : [](Received(e) /\ ~ValidSignature(e) => pc[e] = "rejected")

\* the calls made for a message: every outbound call but the observer forwards
PerMessageKinds == OutboundKinds \ {"forward"}

PerMessageCalls(effects) == SelectSeq(effects, LAMBDA x : x.k \in PerMessageKinds)

\* the ordinary messages of conversation w among the first n of request e
\* that no handoff-intent message of w precedes
OrdinaryBeforeIntent(e, n, w) ==
  {i \in 1..n :
     /\ Routable(MessagesOf(e)[i]) /\ MessagesOf(e)[i].from = w
     /\ ~HandoffIntent(Trim(MessagesOf(e)[i].body))
     /\ IntentMessages(e, i - 1, w) = {}}

\* C27: within one request the messages are routed in payload order and one
\* at a time.  A run of the handler never goes back in the list and begins at
\* most one call, which is for the message it stops at and is awaited; so
\* the AI calls of a conversation are as many as its ordinary messages that
\* no handoff-intent message precedes, and none of them comes after an
\* effect of that conversation's handoff.
C27_OneAtATime ==
  \A e \in Events :
    HandlerStep(e) =>
      LET calls == PerMessageCalls(NewEffects(e))
          msgs == Messages(JSONparse(rcvd'[e]))
      IN /\ idx'[e] >= idx[e]
         /\ Len(calls) <= 1
         /\ Len(calls) = 1 =>
              /\ idx'[e] \in 1..Len(msgs)
              /\ calls[1].to \in {msgs[idx'[e]].from, "3cx"}
              /\ calls[1] = LastNew(e)
              /\ pc'[e] \notin {"idle", "done", "crashed", "rejected"}
         /\ Len(calls) = 0 => pc'[e] \in {"done", "crashed", "rejected"}

C27_AICount ==
  \A e \in Events : \A w \in WaIds :
    Received(e) /\ ValidSignature(e) =>
      CountIn(log[e], {"ai"}, w) = Cardinality(OrdinaryBeforeIntent(e, Begun(e), w))

C27_NoAIAfterHandoff ==
  \A e \in Events : \A p, q \in 1..Len(log[e]) :
    p < q /\ log[e][p].k \in HandoffKinds \ {"bridge"} =>
      ~(log[e][q].k = "ai" /\ log[e][q].to = log[e][p].to)

C27_PayloadOrder ==
  [](C27_AICount /\ C27_NoAIAfterHandoff) /\ [][C27_OneAtATime]_vars

\* C27 witness: the ordinary message that follows the handoff-intent message
\* of its conversation has been passed over after the handoff's calls settled
C27_Witness ==
  \E e \in Events :
    /\ cfg.variant = "summary"
    /\ rcvd[e] = Bytes(0, TRUE, TRUE, <<Msg("text", "A", TextIntent), Msg("text", "A", TextOrdinary)>>)
    /\ pc[e] = "done" /\ idx[e] = 3
    /\ CountIn(log[e], {"sendSummary"}, "A") = 1
    /\ CountIn(log[e], {"ai"}, "A") = 0

\* the calls and messages addressed to a conversation: every call made for a
\* message but the forward of the payload to the 3CX webhook
ConversationKinds == PerMessageKinds \ {"bridge"}

\* C28: conversations are isolated.  A run of the handler changes the flag
\* of a conversation only if it has begun a message of that conversation;
\* every AI-backend call and message it produces is addressed to the sender
\* of the message it stops at; and an ordinary message whose own
\* conversation is not in handoff mode gets its AI call whatever the flags
\* of the other conversations are.
C28_FlagFrame ==
  \A e \in Events : \A w \in WaIds :
    handoff'[w] # handoff[w] /\ HandlerStep(e) =>
      \E i \in BegunInStep(e) : Messages(JSONparse(rcvd'[e]))[i].from = w

C28_Addressee ==
  \A e \in Events :
    HandlerStep(e) =>
      \A k \in 1..Len(NewEffects(e)) :
        NewEffects(e)[k].k \in ConversationKinds =>
          /\ idx'[e] \in 1..Len(Messages(JSONparse(rcvd'[e])))
          /\ NewEffects(e)[k].to = Messages(JSONparse(rcvd'[e]))[idx'[e]].from

C28_NotSuppressed ==
  \A e \in Events :
    \A i \in BegunInStep(e) :
      LET m == Messages(JSONparse(rcvd'[e]))[i]
      IN Routable(m) /\ ~HandoffIntent(Trim(m.body)) /\ ~handoff[m.from]
           /\ (\A j \in BegunInStep(e) :
                 j < i => Messages(JSONparse(rcvd'[e]))[j].from # m.from) =>
             Effect("ai", m.from, Trim(m.body)) = LastNew(e)

C28_ConversationsIsolated ==
  [][C28_FlagFrame /\ C28_Addressee /\ C28_NotSuppressed]_vars

\* C28 witness: with conversation A in handoff mode by an earlier request, the
\* message of B in a later request had its AI call and its reply, and the
\* flag of B is not set
C28_Witness ==
  \E d, e \in Events :
    /\ d < e /\ cfg.variant # "routing"
    /\ rcvd[d] = Bytes(0, TRUE, TRUE, <<Msg("text", "A", TextIntent)>>)
    /\ rcvd[e] = Bytes(0, TRUE, TRUE, <<Msg("text", "B", TextOrdinary)>>)
    /\ handoff["A"] /\ ~handoff["B"]
    /\ pc[e] = "done"
    /\ CountIn(log[e], {"ai"}, "B") = 1 /\ CountIn(log[e], {"sendReply"}, "B") = 1
    /\ CountIn(log[e], ConversationKinds, "A") = 0

====
